---- MODULE Spec2Model ----
(***************************************************************************)
(* Contact form and newsletter form of homework_60.                        *)
(*                                                                         *)
(* Three copies of the validation rules exist in the repository:           *)
(*   "Formik"     src/src/components/ContactForm.tsx  (<Formik> component) *)
(*   "useFormik"  src/unnamed/part_000                (useFormik hook)     *)
(*   "validation" src/src/validation/contactSchema.ts (schema only)        *)
(* plus a third newsletter schema, "exported", at the end of               *)
(* ContactForm.tsx.  The schemas are Yup object schemas; the forms hand    *)
(* them to Formik as validationSchema.  Yup is modelled as of its 1.x      *)
(* line and Formik as of its 2.x line, with the options the source leaves  *)
(* at their defaults (validateOnChange, validateOnBlur on; validateOnMount *)
(* off; no initialErrors).                                                 *)
(*                                                                         *)
(* A JS string is a sequence of one-character strings.  Formik's touched   *)
(* map only gates which messages are displayed; nothing modelled here      *)
(* reads it, and it is left out.                                           *)
(***************************************************************************)
EXTENDS Integers, Sequences, FiniteSets, TLC

VARIABLES
  impl,       \* which copy of the form / of the schema is running
  values,     \* contact form: formik.values
  errors,     \* contact form: formik.errors
  nlValues,   \* newsletter form: formik.values
  nlErrors,   \* newsletter form: formik.errors
  lastEvent,  \* history: the event handled last, [form, type]
  alerted,    \* history: what the last step handed to alert(), if anything
  fld,        \* single-field validation: the path of the field
  val,        \* single-field validation: the string in the field
  typed,      \* single-field validation: characters typed since the start
  inner       \* single-field validation: the inner errors of Yup

vars == <<impl, values, errors, nlValues, nlErrors, lastEvent, alerted,
          fld, val, typed, inner>>

-----------------------------------------------------------------------------
(* JavaScript values *)

Undefined == [type |-> "undefined"]

Null == [type |-> "null"]

Str(s) == [type |-> "string", str |-> s]

Bool(b) == [type |-> "boolean", bool |-> b]

File(n) == [type |-> "File", size |-> n]

\* !value : undefined, null, "" and false are falsy; a File object is truthy.
Falsy(v) ==
  \/ v.type \in {"undefined", "null"}
  \/ v.type = "string" /\ v.str = <<>>
  \/ v.type = "boolean" /\ ~v.bool

-----------------------------------------------------------------------------
(* Character classes of the regular expressions *)

Digit == {"0", "1", "2", "3", "4", "5", "6", "7", "8", "9"}

Letter ==
  {"a", "b", "c", "d", "e", "f", "g", "h", "i", "j", "k", "l", "m",
   "n", "o", "p", "q", "r", "s", "t", "u", "v", "w", "x", "y", "z",
   "A", "B", "C", "D", "E", "F", "G", "H", "I", "J", "K", "L", "M",
   "N", "O", "P", "Q", "R", "S", "T", "U", "V", "W", "X", "Y", "Z"}

\* \s and String.prototype.trim's white space, as far as TLA+ strings spell it
WhiteSpace == {" ", "\t", "\n", "\r", "\f"}

\* The character class of the local part in the email pattern of Yup (the
\* backquote, which a TLA+ string cannot spell, is left out)
EmailLocalChar ==
  Letter \cup Digit \cup
  {".", "!", "#", "$", "%", "&", "'", "*", "+", "/", "=", "?", "^", "_",
   "{", "|", "}", "~", "-"}

AllIn(s, class) == \A i \in 1..Len(s) : s[i] \in class

NoneIn(s, class) == \A i \in 1..Len(s) : s[i] \notin class

-----------------------------------------------------------------------------
(* String.prototype.trim and String.prototype.split *)

RECURSIVE TrimStart(_)
TrimStart(s) ==
  IF s /= <<>> /\ Head(s) \in WhiteSpace THEN TrimStart(Tail(s)) ELSE s

RECURSIVE TrimEnd(_)
TrimEnd(s) ==
  IF s /= <<>> /\ s[Len(s)] \in WhiteSpace
    THEN TrimEnd(SubSeq(s, 1, Len(s) - 1))
    ELSE s

Trim(s) == TrimEnd(TrimStart(s))

\* s.split(sep) for a one-character separator: the pieces between the
\* separators, empty pieces included; "".split(" ") is [""].
RECURSIVE SplitFrom(_, _, _)
SplitFrom(s, sep, cur) ==
  IF s = <<>> THEN <<cur>>
  ELSE IF Head(s) = sep THEN <<cur>> \o SplitFrom(Tail(s), sep, <<>>)
  ELSE SplitFrom(Tail(s), sep, Append(cur, Head(s)))

Split(s, sep) == SplitFrom(s, sep, <<>>)

\* (value) => !!value && value.trim().split(" ").length >= 2
FullNameTest(v) ==
  /\ ~Falsy(v)
  /\ Len(Split(Trim(v.str), " ")) >= 2

-----------------------------------------------------------------------------
(* The regular expressions of the schemas *)

RePostcode == "^\\d{4,10}$"

ReDigits == "^\\d+$"

RePhone == "^\\d{10,}$"

ReTwoWords == "^\\S+\\s+\\S+$"

\* /^\S+\s+\S+$/ : non-space run, white-space run, non-space run
TwoWords(s) ==
  \E i \in 1..Len(s) : \E j \in i..Len(s) :
    /\ i > 1
    /\ j < Len(s)
    /\ NoneIn(SubSeq(s, 1, i - 1), WhiteSpace)
    /\ AllIn(SubSeq(s, i, j), WhiteSpace)
    /\ NoneIn(SubSeq(s, j + 1, Len(s)), WhiteSpace)

Matches(regex, s) ==
  CASE regex = RePostcode -> AllIn(s, Digit) /\ Len(s) >= 4 /\ Len(s) <= 10
    [] regex = ReDigits   -> AllIn(s, Digit) /\ Len(s) >= 1
    [] regex = RePhone    -> AllIn(s, Digit) /\ Len(s) >= 10
    [] regex = ReTwoWords -> TwoWords(s)

\* One domain label: alphanumeric at both ends, hyphens inside, 63 at most
MaxLabelLen == 63

DomainLabel(l) ==
  /\ Len(l) >= 1
  /\ Len(l) <= MaxLabelLen
  /\ AllIn(l, Letter \cup Digit \cup {"-"})
  /\ l[1] /= "-"
  /\ l[Len(l)] /= "-"

\* The email pattern of Yup: a local part, an at sign, labels joined by dots
IsEmail(s) ==
  \E at \in 1..Len(s) :
    /\ s[at] = "@"
    /\ at > 1
    /\ AllIn(SubSeq(s, 1, at - 1), EmailLocalChar)
    /\ LET labels == Split(SubSeq(s, at + 1, Len(s)), ".")
       IN  \A k \in 1..Len(labels) : DomainLabel(labels[k])

-----------------------------------------------------------------------------
(* Yup schemas as data: a field is its path, its optionality and its tests *)
(* in the order the schema chains them.                                    *)

MaxFileSize == 10 * 1024 * 1024

Test(name, num, regex, message) ==
  [name |-> name, num |-> num, regex |-> regex, message |-> message]

Min(n, message) == Test("min", n, "", message)

Max(n, message) == Test("max", n, "", message)

MatchesTest(regex, message) == Test("matches", 0, regex, message)

Email(message) == Test("email", 0, "", message)

\* string().required(message) also chains a test that the string is not empty
RequiredTest(message) == Test("required", 0, "", message)

FullName(message) == Test("full-name", 0, "", message)

FileSize(message) == Test("fileSize", MaxFileSize, "", message)

OneOfTrue(message) == Test("oneOf", 0, "", message)

Field(path, required, requiredMessage, nullable, tests) ==
  [path |-> path, required |-> required, requiredMessage |-> requiredMessage,
   nullable |-> nullable, tests |-> tests]

\* Yup.string()...required(message): the tests, then the required test
RequiredString(path, tests, message) ==
  Field(path, TRUE, message, FALSE, Append(tests, RequiredTest(message)))

OptionalString(path) == Field(path, FALSE, "", FALSE, <<>>)

\* The dash of the postcode message is written as an ASCII hyphen here.
FormikContactSchema ==
  << RequiredString("companyName",
       <<Min(2, "Company name must be at least 2 characters")>>,
       "Company name is required"),
     OptionalString("natureOfBusiness"),
     RequiredString("address",
       <<Min(5, "Address must be at least 5 characters")>>,
       "Address is required"),
     RequiredString("postcode",
       <<MatchesTest(RePostcode, "Postcode must be 4-10 digits")>>,
       "Postcode is required"),
     RequiredString("contactName",
       <<FullName("Please enter at least first and last name")>>,
       "Contact name is required"),
     RequiredString("contactPhone",
       <<MatchesTest(RePhone, "Contact phone must be at least 10 digits")>>,
       "Contact phone is required"),
     RequiredString("email",
       <<Email("Invalid email address")>>,
       "Email is required"),
     OptionalString("linkedin"),
     RequiredString("idea",
       <<Min(30, "Idea description must be at least 30 characters")>>,
       "Idea is required"),
     Field("file", FALSE, "", TRUE,
       <<FileSize("File size is too large (max 10MB)")>>),
     Field("nda", TRUE, "You must agree to NDA", FALSE,
       <<OneOfTrue("You must agree to NDA")>>) >>

UseFormikContactSchema ==
  << RequiredString("companyName",
       <<Min(2, "Company name must be at least 2 characters")>>,
       "Company name is required"),
     OptionalString("natureOfBusiness"),
     RequiredString("address",
       <<Min(5, "Address must be at least 5 characters")>>,
       "Address is required"),
     RequiredString("postcode", <<>>, "Postcode is required"),
     RequiredString("contactName",
       <<FullName("Please enter at least first and last name")>>,
       "Contact name is required"),
     RequiredString("contactPhone", <<>>, "Contact phone is required"),
     RequiredString("email",
       <<Email("Invalid email address")>>,
       "Email is required"),
     OptionalString("linkedin"),
     RequiredString("idea",
       <<Min(30, "Idea description must be at least 30 characters")>>,
       "Idea is required"),
     Field("file", FALSE, "", TRUE,
       <<FileSize("File size is too large (max 10MB)")>>),
     Field("nda", TRUE, "You must agree to NDA", FALSE,
       <<OneOfTrue("You must agree to NDA")>>) >>

\* No messages are given: the messages are the defaults of Yup
ValidationContactSchema ==
  << RequiredString("companyName",
       <<Min(2, "companyName must be at least 2 characters")>>,
       "companyName is a required field"),
     OptionalString("natureOfBusiness"),
     RequiredString("address",
       <<Min(5, "address must be at least 5 characters")>>,
       "address is a required field"),
     RequiredString("postcode",
       <<MatchesTest(ReDigits, "postcode must match the following: /^\\d+$/"),
         Min(4, "postcode must be at least 4 characters"),
         Max(10, "postcode must be at most 10 characters")>>,
       "postcode is a required field"),
     RequiredString("contactName",
       <<MatchesTest(ReTwoWords,
           "contactName must match the following: /^\\S+\\s+\\S+$/")>>,
       "contactName is a required field"),
     RequiredString("contactPhone",
       <<MatchesTest(RePhone,
           "contactPhone must match the following: /^\\d{10,}$/")>>,
       "contactPhone is a required field"),
     RequiredString("email",
       <<Email("email must be a valid email")>>,
       "email is a required field"),
     OptionalString("linkedin"),
     RequiredString("idea",
       <<Min(30, "idea must be at least 30 characters")>>,
       "idea is a required field"),
     Field("protectData", FALSE, "", FALSE, <<OneOfTrue("Required")>>) >>

contactSchema(id) ==
  CASE id = "Formik"     -> FormikContactSchema
    [] id = "useFormik"  -> UseFormikContactSchema
    [] id = "validation" -> ValidationContactSchema

newsletterSchema(id) ==
  CASE id = "Formik" ->
         <<RequiredString("email", <<Email("Invalid email")>>,
                          "Email is required")>>
    [] id = "useFormik" ->
         <<RequiredString("email", <<Email("email must be a valid email")>>,
                          "email is a required field")>>
    [] id = "exported" ->
         <<RequiredString("email", <<Email("Invalid email")>>, "Required")>>

Paths(schema) == {schema[i].path : i \in 1..Len(schema)}

FieldOf(schema, path) ==
  schema[CHOOSE i \in 1..Len(schema) : schema[i].path = path]

-----------------------------------------------------------------------------
(* Yup validation *)

Absent(v) == v.type \in {"undefined", "null"}

\* TestPasses with the size test written as a strict comparison
TestPassesStrictSize(t, v) ==
  CASE t.name = "min"       -> Absent(v) \/ Len(v.str) >= t.num
    [] t.name = "max"       -> Absent(v) \/ Len(v.str) <= t.num
    [] t.name = "matches"   -> Absent(v) \/ Matches(t.regex, v.str)
    [] t.name = "email"     -> Absent(v) \/ v.str = <<>> \/ IsEmail(v.str)
    [] t.name = "required"  -> Absent(v) \/ Len(v.str) > 0
    [] t.name = "oneOf"     -> Absent(v) \/ v.bool = TRUE
    [] t.name = "full-name" -> FullNameTest(v)
    [] t.name = "fileSize"  ->
         IF Falsy(v) THEN TRUE ELSE v.type = "File" /\ v.size < t.num

\* One test on one value.  The built-in tests skip an absent value; the two
\* tests written in the source are handed it.
TestPasses(t, v) ==
  CASE t.name = "min"       -> Absent(v) \/ Len(v.str) >= t.num
    [] t.name = "max"       -> Absent(v) \/ Len(v.str) <= t.num
    [] t.name = "matches"   -> Absent(v) \/ Matches(t.regex, v.str)
    [] t.name = "email"     -> Absent(v) \/ v.str = <<>> \/ IsEmail(v.str)
    [] t.name = "required"  -> Absent(v) \/ Len(v.str) > 0
    [] t.name = "oneOf"     -> Absent(v) \/ v.bool = TRUE
    [] t.name = "full-name" -> FullNameTest(v)
    [] t.name = "fileSize"  ->
         IF Falsy(v) THEN TRUE ELSE v.type = "File" /\ v.size <= t.num

\* The messages of the failing tests, in the order of the tests
RECURSIVE RunTests(_, _)
RunTests(tests, v) ==
  IF tests = <<>> THEN <<>>
  ELSE (IF TestPasses(Head(tests), v) THEN <<>> ELSE <<Head(tests).message>>)
         \o RunTests(Tail(tests), v)

\* Schema validation of one value: optionality and nullability are decided
\* first, and the chained tests run only when those pass.
ValidateField(fs, v) ==
  IF v.type = "undefined" /\ fs.required THEN <<fs.requiredMessage>>
  ELSE IF v.type = "null" /\ ~fs.nullable
    THEN <<IF fs.required THEN fs.requiredMessage ELSE "cannot be null">>
  ELSE RunTests(fs.tests, v)

ValueAt(rec, path) == IF path \in DOMAIN rec THEN rec[path] ELSE Undefined

\* ValidateObject as validate(values) is without options: the first failing
\* field ends the validation
RECURSIVE ValidateObjectAbortEarly(_, _)
ValidateObjectAbortEarly(schema, rec) ==
  IF schema = <<>> THEN <<>>
  ELSE LET fs   == Head(schema)
           msgs == ValidateField(fs, ValueAt(rec, fs.path))
       IN  IF msgs /= <<>>
             THEN <<[path |-> fs.path, message |-> msgs[1]]>>
             ELSE ValidateObjectAbortEarly(Tail(schema), rec)

\* validate(values, {abortEarly: false}): every field is validated, and the
\* errors come in the order of the fields of the schema.
RECURSIVE ValidateObject(_, _)
ValidateObject(schema, rec) ==
  IF schema = <<>> THEN <<>>
  ELSE LET fs   == Head(schema)
           msgs == ValidateField(fs, ValueAt(rec, fs.path))
       IN  [k \in 1..Len(msgs) |-> [path |-> fs.path, message |-> msgs[k]]]
             \o ValidateObject(Tail(schema), rec)

-----------------------------------------------------------------------------
(* Formik: validationSchema, errors, isValid *)

\* prepareDataForValidation handing the empty string on as it is
prepareDataUnchanged(rec) == rec

\* An empty string is validated as undefined
prepareDataForValidation(rec) ==
  [k \in DOMAIN rec |-> IF rec[k] = Str(<<>>) THEN Undefined ELSE rec[k]]

\* The first message of each path
RECURSIVE yupToFormErrors(_)
yupToFormErrors(errs) ==
  IF errs = <<>> THEN <<>>
  ELSE LET rest == yupToFormErrors(Tail(errs))
           e    == Head(errs)
       IN  (e.path :> e.message) @@ rest

validateYupSchema(schema, rec) ==
  ValidateObject(schema, prepareDataForValidation(rec))

runValidationSchema(schema, rec) ==
  yupToFormErrors(validateYupSchema(schema, rec))

\* isValid: the errors object has no keys
isValid(errs) == DOMAIN errs = {}

-----------------------------------------------------------------------------
(* The two forms of the ContactForm component *)

FormImpls == {"Formik", "useFormik"}

initialValues ==
  [companyName |-> Str(<<>>), natureOfBusiness |-> Str(<<>>),
   address |-> Str(<<>>), postcode |-> Str(<<>>), contactName |-> Str(<<>>),
   contactPhone |-> Str(<<>>), email |-> Str(<<>>), linkedin |-> Str(<<>>),
   idea |-> Str(<<>>), file |-> Null, nda |-> Bool(FALSE)]

nlInitialValues == [email |-> Str(<<>>)]

TextFields ==
  {"companyName", "natureOfBusiness", "address", "postcode", "contactName",
   "contactPhone", "email", "linkedin", "idea"}

\* The inputs that carry an onBlur handler
BlurFields(id) ==
  IF id = "Formik" THEN TextFields \cup {"nda"} ELSE TextFields

Repeat(c, n) == [i \in 1..n |-> c]

\* What the user is taken to type into each input: nothing, or a value
\* like those of the end-to-end scenario
TextSamples(path) ==
  CASE path = "companyName" -> {<<>>, <<"A", "c">>}
    [] path = "natureOfBusiness" -> {<<>>, <<"I", "T">>}
    [] path = "address" ->
         {<<>>, <<"1", "2", "3", " ", "M", "a", "i", "n", " ", "S", "t">>}
    [] path = "postcode" -> {<<>>, <<"1", "2", "3", "4", "5">>}
    [] path = "contactName" -> {<<>>, <<"J", "o", " ", "L", "e", "e">>}
    [] path = "contactPhone" ->
         {<<>>, <<"1", "2", "3", "4", "5", "6", "7", "8", "9", "0">>}
    [] path = "email" -> {<<>>, <<"j", "o", "@", "x", ".", "c", "o", "m">>}
    [] path = "linkedin" -> {<<>>}
    [] path = "idea" -> {<<>>, Repeat("x", 30)}

FileSamples == {Null, File(MaxFileSize), File(MaxFileSize + 1)}

NlSamples ==
  {<<>>, <<"a", "@", "b", ".", "c", "o", "m">>,
   <<"n", "o", "t", "-", "a", "n", "-", "e", "m", "a", "i", "l">>}

NoAlert == [form |-> "none"]

Event(form, type) == [form |-> form, type |-> type]

\* disabled={!isValid}
ButtonEnabled(errs) == isValid(errs)

Init ==
  /\ impl \in FormImpls
  /\ values = initialValues
  /\ errors = <<>>
  /\ nlValues = nlInitialValues
  /\ nlErrors = <<>>
  /\ lastEvent = Event("none", "init")
  /\ alerted = NoAlert
  /\ fld = ""
  /\ val = <<>>
  /\ typed = 0
  /\ inner = <<>>

\* setFieldValue(field, value): the value is stored and the form validated.
\* The validation is a chain of promises that settles before the browser
\* delivers the next event, so an event and its validation are one step.
setFieldValue(path, v) ==
  /\ values' = [values EXCEPT ![path] = v]
  /\ errors' = runValidationSchema(contactSchema(impl), values')

\* onChange={formik.handleChange} of a text input, and of <Field name=...>
HandleChange ==
  \E path \in TextFields : \E s \in TextSamples(path) :
    /\ Str(s) /= values[path]
    /\ setFieldValue(path, Str(s))
    /\ lastEvent' = Event("contact", "change")
    /\ alerted' = NoAlert
    /\ UNCHANGED <<impl, nlValues, nlErrors, fld, val, typed, inner>>

\* handleChange of the nda checkbox: the value becomes the checked state
HandleChangeCheckbox ==
  /\ setFieldValue("nda", Bool(~values.nda.bool))
  /\ lastEvent' = Event("contact", "change")
  /\ alerted' = NoAlert
  /\ UNCHANGED <<impl, nlValues, nlErrors, fld, val, typed, inner>>

\* onChange of the file input: setFieldValue("file", files?.[0] || null)
HandleFileChange ==
  \E f \in FileSamples :
    /\ setFieldValue("file", f)
    /\ lastEvent' = Event("contact", "change")
    /\ alerted' = NoAlert
    /\ UNCHANGED <<impl, nlValues, nlErrors, fld, val, typed, inner>>

\* HandleBlur with validateOnBlur off
HandleBlurNoValidate ==
  \E path \in BlurFields(impl) :
    /\ lastEvent' = Event("contact", "blur")
    /\ alerted' = NoAlert
    /\ UNCHANGED <<impl, values, errors, nlValues, nlErrors, fld, val, typed,
                   inner>>

\* onBlur={formik.handleBlur}: the field is touched and the form validated
HandleBlur ==
  \E path \in BlurFields(impl) :
    /\ errors' = runValidationSchema(contactSchema(impl), values)
    /\ lastEvent' = Event("contact", "blur")
    /\ alerted' = NoAlert
    /\ UNCHANGED <<impl, values, nlValues, nlErrors, fld, val, typed, inner>>

\* submitForm calling onSubmit whatever the validation found
submitFormUnchecked(schema, vals) ==
  [errors |-> runValidationSchema(schema, vals), onSubmit |-> TRUE]

\* submitForm: validate, and call onSubmit only when nothing is in error
submitForm(schema, vals) ==
  LET combinedErrors == runValidationSchema(schema, vals)
  IN  [errors |-> combinedErrors, onSubmit |-> isValid(combinedErrors)]

\* The submit button of the contact form (enabled while isValid)
HandleSubmit ==
  /\ ButtonEnabled(errors)
  /\ LET r == submitForm(contactSchema(impl), values)
     IN  /\ errors' = r.errors
         /\ alerted' = IF r.onSubmit
                         THEN [form |-> "contact", values |-> values]
                         ELSE NoAlert
  /\ lastEvent' = Event("contact", "submit")
  /\ UNCHANGED <<impl, values, nlValues, nlErrors, fld, val, typed, inner>>

NlHandleChange ==
  \E s \in NlSamples :
    /\ Str(s) /= nlValues.email
    /\ nlValues' = [nlValues EXCEPT !.email = Str(s)]
    /\ nlErrors' = runValidationSchema(newsletterSchema(impl), nlValues')
    /\ lastEvent' = Event("newsletter", "change")
    /\ alerted' = NoAlert
    /\ UNCHANGED <<impl, values, errors, fld, val, typed, inner>>

NlHandleBlur ==
  /\ nlErrors' = runValidationSchema(newsletterSchema(impl), nlValues)
  /\ lastEvent' = Event("newsletter", "blur")
  /\ alerted' = NoAlert
  /\ UNCHANGED <<impl, values, errors, nlValues, fld, val, typed, inner>>

NlHandleSubmit ==
  /\ ButtonEnabled(nlErrors)
  /\ LET r == submitForm(newsletterSchema(impl), nlValues)
     IN  /\ nlErrors' = r.errors
         /\ alerted' = IF r.onSubmit
                         THEN [form |-> "newsletter", values |-> nlValues]
                         ELSE NoAlert
  /\ lastEvent' = Event("newsletter", "submit")
  /\ UNCHANGED <<impl, values, errors, nlValues, fld, val, typed, inner>>

Next ==
  \/ HandleChange
  \/ HandleChangeCheckbox
  \/ HandleFileChange
  \/ HandleBlur
  \/ HandleSubmit
  \/ NlHandleChange
  \/ NlHandleBlur
  \/ NlHandleSubmit

Spec == Init /\ [][Next]_vars

-----------------------------------------------------------------------------
(* validateContact as a function of a whole record, for each of the three  *)
(* contact schemas.  A schema is evaluated the way the forms evaluate it,  *)
(* as a Formik validationSchema.                                           *)

ContactImpls == {"Formik", "useFormik", "validation"}

S_companyName == {<<>>, <<"A">>, <<"A", "c">>}

S_natureOfBusiness == {<<>>, <<"I", "T">>}

S_address == {<<>>, <<"1", "2", "3", " ", "M", "a", "i", "n", " ", "S", "t">>}

S_postcode == {<<>>, <<"1", "2", "3">>, <<"1", "2", "a", "4">>,
               <<"1", "2", "3", "4", "5">>}

S_contactName == {<<>>, <<"J", "a", "n", "e">>, <<"J", "o", " ", "L", "e", "e">>}

S_contactPhone == {<<>>, <<"1", "2", "3", "4", "5", "6", "7", "8", "9", "0">>}

S_email == {<<>>, <<"j", "o", "@", "x", ".", "c", "o", "m">>}

S_linkedin == {<<>>}

S_idea == {<<>>, Repeat("x", 29), Repeat("x", 30)}

StrSet(S) == {Str(s) : s \in S}

ContactRecords(id) ==
  IF id = "validation"
    THEN [companyName : StrSet(S_companyName),
          natureOfBusiness : StrSet(S_natureOfBusiness),
          address : StrSet(S_address), postcode : StrSet(S_postcode),
          contactName : StrSet(S_contactName),
          contactPhone : StrSet(S_contactPhone), email : StrSet(S_email),
          linkedin : StrSet(S_linkedin), idea : StrSet(S_idea),
          protectData : {Undefined, Bool(FALSE), Bool(TRUE)}]
    ELSE [companyName : StrSet(S_companyName),
          natureOfBusiness : StrSet(S_natureOfBusiness),
          address : StrSet(S_address), postcode : StrSet(S_postcode),
          contactName : StrSet(S_contactName),
          contactPhone : StrSet(S_contactPhone), email : StrSet(S_email),
          linkedin : StrSet(S_linkedin), idea : StrSet(S_idea),
          file : FileSamples, nda : {Bool(FALSE), Bool(TRUE)}]

InitRecord ==
  /\ impl \in ContactImpls
  /\ values \in ContactRecords(impl)
  /\ errors = <<>>
  /\ nlValues = nlInitialValues
  /\ nlErrors = <<>>
  /\ lastEvent = Event("record", "input")
  /\ alerted = NoAlert
  /\ fld = ""
  /\ val = <<>>
  /\ typed = 0
  /\ inner = <<>>

ValidateContact ==
  /\ lastEvent = Event("record", "input")
  /\ errors' = runValidationSchema(contactSchema(impl), values)
  /\ lastEvent' = Event("record", "validated")
  /\ UNCHANGED <<impl, values, nlValues, nlErrors, alerted, fld, val, typed,
                 inner>>

NextRecord == ValidateContact

SpecRecord == InitRecord /\ [][NextRecord]_vars

-----------------------------------------------------------------------------
(* One string field of one schema, typed into character by character.      *)

MaxTyped == 3

Alphabet == {"1", "a", " ", "\t", "@", "."}

NewsletterImpls == {"Formik", "useFormik", "exported"}

SchemaOf(form, id) ==
  IF form = "newsletter" THEN newsletterSchema(id) ELSE contactSchema(id)

\* What the field holds when the typing starts
Seeds(form, path) ==
  IF form = "newsletter"
    THEN {<<>>, <<"a", "@", "b", ".", "c", "o", "m">>,
          <<"n", "o", "t", "-", "a", "n", "-", "e", "m", "a", "i", "l">>}
  ELSE CASE path = "companyName" -> {<<>>}
    [] path = "natureOfBusiness" -> {<<>>}
    [] path = "address" -> {<<>>, <<"1", "2", "3">>}
    [] path = "postcode" ->
         {<<>>, <<"1", "2">>, <<"1", "2", "3", "4", "5", "6", "7", "8", "9">>,
          <<"1", "2", "a", "4">>,
          <<"1", "2", "3", "4", "5", "6", "7", "8", "9", "0", "1">>}
    [] path = "contactName" ->
         {<<>>, <<"J", "a", "n", "e">>, <<"J", "a", "n", "e", " ", "D", "o", "e">>,
          <<" ", " ", "J", "a", "n", "e", " ", " ", " ", "D", "o", "e", " ", " ">>}
    [] path = "contactPhone" ->
         {<<>>, <<"1", "2", "3", "4", "5", "6", "7", "8">>,
          <<"1", "2", "3", "4", "5", "6", "7", "8", "9", "0">>}
    [] path = "email" -> {<<>>, <<"j", "o", "@", "x", ".", "c", "o", "m">>}
    [] path = "linkedin" -> {<<>>}
    [] path = "idea" -> {<<>>, Repeat("x", 28)}

InitField ==
  /\ lastEvent \in {Event("contact", "init"), Event("newsletter", "init")}
  /\ impl \in IF lastEvent.form = "newsletter" THEN NewsletterImpls
                                               ELSE ContactImpls
  /\ fld \in IF lastEvent.form = "newsletter" THEN {"email"} ELSE TextFields
  /\ val \in Seeds(lastEvent.form, fld)
  /\ typed = 0
  /\ inner = <<>>
  /\ errors = <<>>
  /\ values = initialValues
  /\ nlValues = nlInitialValues
  /\ nlErrors = <<>>
  /\ alerted = NoAlert

\* The field's schema applied to the string s the way Formik applies it
validateField(s) ==
  /\ inner' = validateYupSchema(<<FieldOf(SchemaOf(lastEvent.form, impl), fld)>>,
                                fld :> Str(s))
  /\ errors' = yupToFormErrors(inner')

\* A key stroke: handleChange with one more character
FieldType ==
  \E c \in Alphabet :
    /\ typed < MaxTyped
    /\ val' = Append(val, c)
    /\ typed' = typed + 1
    /\ validateField(val')
    /\ lastEvent' = Event(lastEvent.form, "change")
    /\ UNCHANGED <<impl, fld, values, nlValues, nlErrors, alerted>>

\* The field is emptied: handleChange with the empty string
FieldClear ==
  /\ val /= <<>>
  /\ val' = <<>>
  /\ typed' = 0
  /\ validateField(val')
  /\ lastEvent' = Event(lastEvent.form, "change")
  /\ UNCHANGED <<impl, fld, values, nlValues, nlErrors, alerted>>

\* handleBlur: the field is validated as it stands
FieldBlur ==
  /\ validateField(val)
  /\ lastEvent' = Event(lastEvent.form, "blur")
  /\ UNCHANGED <<impl, fld, val, typed, values, nlValues, nlErrors, alerted>>

NextField == FieldType \/ FieldClear \/ FieldBlur

SpecField == InitField /\ [][NextField]_vars

-----------------------------------------------------------------------------
(* Properties *)

\* The rule of one field, read off its schema entry: a required field is
\* not empty, and a value that is there passes every chained test.
RuleHolds(fs, v) ==
  IF v.type = "undefined" \/ (v.type = "string" /\ v.str = <<>>)
    THEN ~fs.required
    ELSE \A k \in 1..Len(fs.tests) : TestPasses(fs.tests[k], v)

Violated(schema, rec) ==
  {path \in Paths(schema) : ~RuleHolds(FieldOf(schema, path), ValueAt(rec, path))}

Satisfies(schema, rec) == Violated(schema, rec) = {}

\* C1: in both forms, alert() is called by onSubmit only in a step whose
\* current record satisfies every rule of the form's schema, and it is
\* handed that record.
C1_SubmitOnlyWhenValid ==
  /\ alerted.form = "contact" =>
       /\ alerted.values = values
       /\ Satisfies(contactSchema(impl), values)
  /\ alerted.form = "newsletter" =>
       /\ alerted.values = nlValues
       /\ Satisfies(newsletterSchema(impl), nlValues)

C1_Witness ==
  /\ alerted.form = "contact"
  /\ lastEvent = Event("contact", "submit")
  /\ values.file = File(MaxFileSize)

\* The messages the specification gives for an empty value
SpecRequiredMessage(path) ==
  CASE path = "companyName"  -> "Company name is required"
    [] path = "address"      -> "Address is required"
    [] path = "postcode"     -> "Postcode is required"
    [] path = "contactName"  -> "Contact name is required"
    [] path = "contactPhone" -> "Contact phone is required"
    [] path = "email"        -> "Email is required"
    [] path = "idea"         -> "Idea is required"

RequiredShapeFields ==
  {"companyName", "address", "postcode", "contactName", "contactPhone",
   "email", "idea"}

ShapeTests(fs) ==
  {fs.tests[k] : k \in {j \in 1..Len(fs.tests) : fs.tests[j].name /= "required"}}

\* C2: in the schemas of the two forms, for each of the seven fields with a
\* required check and for every value: the error reported is the "... is
\* required" message exactly when the value is empty; a shape or length
\* message is reported only for a non-empty value that fails that test; and
\* the required message and a shape message are never produced together.
C2_RequiredOrShape ==
  ( /\ lastEvent.form = "contact"
    /\ lastEvent.type /= "init"
    /\ impl \in FormImpls
    /\ fld \in RequiredShapeFields ) =>
    LET fs        == FieldOf(contactSchema(impl), fld)
        produced  == {inner[k].message : k \in 1..Len(inner)}
        reported  == IF fld \in DOMAIN errors THEN {errors[fld]} ELSE {}
        shapeMsgs == {t.message : t \in ShapeTests(fs)}
    IN  /\ (SpecRequiredMessage(fld) \in reported) <=> (val = <<>>)
        /\ (reported \cap shapeMsgs /= {}) =>
             /\ val /= <<>>
             /\ \E t \in ShapeTests(fs) :
                  t.message \in reported /\ ~TestPasses(t, Str(val))
        /\ ~(SpecRequiredMessage(fld) \in produced /\ produced \cap shapeMsgs /= {})

C2_Witness ==
  /\ lastEvent = Event("contact", "change")
  /\ impl = "Formik"
  /\ fld = "contactName"
  /\ val = <<>>
  /\ inner = <<[path |-> "contactName", message |-> "Contact name is required"]>>

\* C3: for every contact record and each of the three schemas, the fields
\* that carry an error are exactly the fields whose own rule the record
\* violates, whatever the other fields hold, and isValid is true exactly
\* when no field carries an error.
C3_FieldsIndependent ==
  lastEvent = Event("record", "validated") =>
    /\ DOMAIN errors = Violated(contactSchema(impl), values)
    /\ isValid(errors) <=> Satisfies(contactSchema(impl), values)

C3_Witness ==
  /\ lastEvent = Event("record", "validated")
  /\ impl = "Formik"
  /\ values.companyName = Str(<<"A">>)
  /\ DOMAIN errors = {"companyName"}
  /\ errors["companyName"] = "Company name must be at least 2 characters"

\* C4 (as claimed): in every contact schema a non-empty postcode is accepted
\* if and only if it is 4 to 10 decimal digits.
C4_PostcodeDigits ==
  ( /\ lastEvent.form = "contact"
    /\ lastEvent.type /= "init"
    /\ fld = "postcode"
    /\ val /= <<>> ) =>
    ((fld \notin DOMAIN errors) <=>
       (AllIn(val, Digit) /\ Len(val) >= 4 /\ Len(val) <= 10))

\* The tokens of s between runs of white space
WordCount(s) ==
  Cardinality({i \in 1..Len(s) :
                 s[i] \notin WhiteSpace /\ (i = 1 \/ s[i - 1] \in WhiteSpace)})

\* C5 (as claimed): in every contact schema a non-empty contactName is
\* accepted if and only if its trimmed value, split on runs of white space,
\* has at least two tokens.
C5_ContactNameTokens ==
  ( /\ lastEvent.form = "contact"
    /\ lastEvent.type /= "init"
    /\ fld = "contactName"
    /\ val /= <<>> ) =>
    ((fld \notin DOMAIN errors) <=> (WordCount(Trim(val)) >= 2))

\* C6 (as claimed): in every contact schema a non-empty contactPhone is
\* accepted if and only if it is 10 or more decimal digits.
C6_PhoneDigits ==
  ( /\ lastEvent.form = "contact"
    /\ lastEvent.type /= "init"
    /\ fld = "contactPhone"
    /\ val /= <<>> ) =>
    ((fld \notin DOMAIN errors) <=> (AllIn(val, Digit) /\ Len(val) >= 10))

FileTooLarge(v) == v.type = "File" /\ v.size > 10 * 1024 * 1024

\* C7: the file field carries an error exactly when a file is present and
\* larger than 10 * 1024 * 1024 bytes; the error is the size message, and it
\* makes isValid false for the record.
C7_FileSizeCap ==
  /\ ("file" \in DOMAIN errors) <=> FileTooLarge(values.file)
  /\ FileTooLarge(values.file) =>
       /\ errors["file"] = "File size is too large (max 10MB)"
       /\ ~isValid(errors)

C7_Witness ==
  /\ lastEvent = Event("contact", "change")
  /\ values.file = File(10 * 1024 * 1024)
  /\ isValid(errors)

\* C8 (as claimed): every newsletter schema reports no error for a
\* well-formed email, "Email is required" for an empty one and "Invalid
\* email" for a malformed one.
C8_NewsletterMessages ==
  ( /\ lastEvent.form = "newsletter"
    /\ lastEvent.type /= "init" ) =>
    /\ IsEmail(val) => "email" \notin DOMAIN errors
    /\ val = <<>> => errors = [email |-> "Email is required"]
    /\ (val /= <<>> /\ ~IsEmail(val)) => errors = [email |-> "Invalid email"]

\* C9: once a form has handled a change, a blur or a submit, its errors are
\* the validation of its current values; errors are never those of an
\* earlier record (before the first event they are the empty initial
\* errors).
C9_ErrorsAreCurrent ==
  /\ lastEvent.form = "contact" =>
       errors = runValidationSchema(contactSchema(impl), values)
  /\ lastEvent.form = "newsletter" =>
       nlErrors = runValidationSchema(newsletterSchema(impl), nlValues)
  /\ \/ errors = runValidationSchema(contactSchema(impl), values)
     \/ values = initialValues /\ errors = <<>>
  /\ \/ nlErrors = runValidationSchema(newsletterSchema(impl), nlValues)
     \/ nlValues = nlInitialValues /\ nlErrors = <<>>

C9_Witness ==
  /\ lastEvent = Event("contact", "blur")
  /\ values = initialValues
  /\ "companyName" \in DOMAIN errors

\* C10 (as claimed): in every reachable state, the initial one included, a
\* submit button is enabled only if the form's record satisfies every rule
\* of its schema.
C10_EnabledOnlyIfValid ==
  /\ ButtonEnabled(errors) => Satisfies(contactSchema(impl), values)
  /\ ButtonEnabled(nlErrors) => Satisfies(newsletterSchema(impl), nlValues)

====
